---------------------------- MODULE Spec2Model ----------------------------
(***************************************************************************)
(* Model of the EMIT workflow's Slurm execution core:                      *)
(*   - emit_workflow/slurm.py: SlurmJobTask.run, _init_local, _run_job,    *)
(*     _track_job, _parse_squeue_state, _get_sbatch_errors;                *)
(*   - emit_main/workflow/slurm_runner.py: main, _do_work_on_compute_node. *)
(* Python strings are sequences of one-character strings, so that split,   *)
(* strip, "in", int() and replace are computed as the interpreter does.    *)
(***************************************************************************)
EXTENDS Integers, Sequences, FiniteSets, TLC

(***************************************************************************)
(* Bounds of the model.                                                    *)
(***************************************************************************)
\* number of sleep/poll cycles of _track_job that are explored
MaxPolls == 3
\* longest content of the error stream file job.err that is explored
MaxErrLen == 2
\* last clock second that concurrent Work Units can see
MaxSeconds == 1
\* length of the longest acquisition id explored
LongIdLen == 240
\* calls of PGE.build that are explored
MaxBuilds == 2
\* times the scheduler starts the submitted job again
MaxRequeues == 1
\* lines of the squeue answers handed to _parse_squeue_state on its own
MaxLines == 2

(***************************************************************************)
(* Python string operations.                                               *)
(***************************************************************************)
Whitespace == {" ", "\n", "\t", "\r"}

DigitChars == <<"0", "1", "2", "3", "4", "5", "6", "7", "8", "9">>

IsDigit(c) == \E i \in 1..10 : DigitChars[i] = c

DigitVal(c) == (CHOOSE i \in 1..10 : DigitChars[i] = c) - 1

\* sub in s
Contains(sub, s) ==
    \E i \in 0..(Len(s) - Len(sub)) : SubSeq(s, i + 1, i + Len(sub)) = sub

\* s.split(sep) for a one-character separator: "" gives [""]
RECURSIVE Split(_, _)
Split(s, sep) ==
    IF \A i \in 1..Len(s) : s[i] # sep
    THEN <<s>>
    ELSE LET k == CHOOSE i \in 1..Len(s) :
                      s[i] = sep /\ \A j \in 1..(i - 1) : s[j] # sep
         IN  <<SubSeq(s, 1, k - 1)>> \o Split(SubSeq(s, k + 1, Len(s)), sep)

\* s.strip()
RECURSIVE Strip(_)
Strip(s) ==
    IF s = <<>> THEN s
    ELSE IF s[1] \in Whitespace THEN Strip(Tail(s))
    ELSE IF s[Len(s)] \in Whitespace THEN Strip(SubSeq(s, 1, Len(s) - 1))
    ELSE s

\* s.split(): the fields between runs of whitespace, none of them empty
RECURSIVE Fields(_)
Fields(s) ==
    LET t == Strip(s)
    IN  IF t = <<>> THEN <<>>
        ELSE IF \A i \in 1..Len(t) : t[i] \notin Whitespace
        THEN <<t>>
        ELSE LET k == CHOOSE i \in 1..Len(t) :
                          t[i] \in Whitespace /\ \A j \in 1..(i - 1) : t[j] \notin Whitespace
             IN  <<SubSeq(t, 1, k - 1)>> \o Fields(SubSeq(t, k + 1, Len(t)))

\* s.replace(old, new): every occurrence, left to right, not overlapping
RECURSIVE Replace(_, _, _)
Replace(s, old, new) ==
    LET At(i) == SubSeq(s, i, i + Len(old) - 1) = old
        Starts == 1..(Len(s) - Len(old) + 1)
    IN  IF \A i \in Starts : ~At(i) THEN s
        ELSE LET k == CHOOSE i \in Starts : At(i) /\ \A j \in 1..(i - 1) : ~At(j)
             IN  SubSeq(s, 1, k - 1) \o new
                     \o Replace(SubSeq(s, k + Len(old), Len(s)), old, new)

\* the digits of int(s), after the surrounding whitespace and the sign
IntBody(s) ==
    LET t == Strip(s)
    IN  IF t # <<>> /\ t[1] \in {"+", "-"} THEN Tail(t) ELSE t

\* int(s) does not raise ValueError
IntParses(s) ==
    /\ IntBody(s) # <<>>
    /\ \A i \in 1..Len(IntBody(s)) : IsDigit(IntBody(s)[i])

RECURSIVE DigitsVal(_)
DigitsVal(d) ==
    IF d = <<>> THEN 0
    ELSE 10 * DigitsVal(SubSeq(d, 1, Len(d) - 1)) + DigitVal(d[Len(d)])

\* int(s), where it parses
IntOf(s) ==
    LET t == Strip(s)
    IN  IF t[1] = "-" THEN 0 - DigitsVal(IntBody(s)) ELSE DigitsVal(IntBody(s))

\* str(n)
RECURSIVE StrOf(_)
StrOf(n) ==
    IF n < 0 THEN <<"-">> \o StrOf(0 - n)
    ELSE IF n < 10 THEN <<DigitChars[n + 1]>>
    ELSE StrOf(n \div 10) \o <<DigitChars[(n % 10) + 1]>>


Last(s) == s[Len(s)]

(***************************************************************************)
(* Texts of emit_workflow/slurm.py and of the scheduler's answers.         *)
(***************************************************************************)
\* _parse_squeue_state: invalid_job_str
invalid_job_str ==
    <<"I", "n", "v", "a", "l", "i", "d", " ", "j", "o", "b", " ", "i", "d", " ",
      "s", "p", "e", "c", "i", "f", "i", "e", "d">>

\* _parse_squeue_state: the text that marks the header line
JOBID == <<"J", "O", "B", "I", "D">>

\* the value _parse_squeue_state returns for "no row"
u == <<"u">>

PD == <<"P", "D">>

R == <<"R">>

S == <<"S">>

\* Python's None, and exceptions, as values no Python string equals
None == <<"None">>

IndexError == <<"IndexError">>

FileNotFoundError == <<"FileNotFoundError">>

\* _init_local: base_tmp_dir
base_tmp_dir ==
    <<"/", "b", "e", "e", "g", "f", "s", "/", "s", "c", "r", "a", "t", "c", "h",
      "/", "t", "m", "p", "/">>

\* the header line squeue prints
SqueueHeader ==
    <<"J", "O", "B", "I", "D", " ", "P", "A", "R", "T", "I", "T", "I", "O", "N", " ",
      "N", "A", "M", "E", " ", "U", "S", "E", "R", " ", "S", "T", " ",
      "T", "I", "M", "E", " ", "N", "O", "D", "E", "S", " ",
      "N", "O", "D", "E", "L", "I", "S", "T", "(", "R", "E", "A", "S", "O", "N", ")", "\n">>

\* state codes squeue prints for a job it lists (ST column)
StateCodes == {PD, R, S, <<"C", "G">>, <<"C", "F">>}

\* the row squeue prints for job id with state code st
SqueueRow(id, st) ==
    <<" ", " ">> \o StrOf(id)
        \o <<" ", "d", "e", "b", "u", "g", " ", "t", "a", "s", "k", " ", "e", "m", "i", "t", " ">>
        \o st
        \o <<" ", "0", ":", "0", "1", " ", "1", " ", "n", "o", "d", "e", "1", "\n">>

\* the scheduler's "invalid id" answer
SqueueInvalid ==
    <<"s", "l", "u", "r", "m", "_", "l", "o", "a", "d", "_", "j", "o", "b", "s", " ",
      "e", "r", "r", "o", "r", ":", " ">> \o invalid_job_str \o <<"\n">>

\* answers of squeue -j id that carry no row for the job
NoRowOutputs ==
    { <<>>,
      SqueueHeader,
      SqueueHeader \o <<"\n", " ", "\n">>,
      SqueueInvalid,
      SqueueHeader \o SqueueInvalid }

\* answers of squeue -j id that list the job
RowOutputs(id) == { SqueueHeader \o SqueueRow(id, st) : st \in StateCodes }

SqueueOutputs(id) == NoRowOutputs \cup RowOutputs(id)

\* acknowledgments of sbatch (its standard output)
SbatchOutputs ==
    LET said == <<"S", "u", "b", "m", "i", "t", "t", "e", "d", " ", "b", "a", "t", "c", "h",
                  " ", "j", "o", "b", " ">>
    IN  { said \o <<"1", "2", "\n">>,
          said \o <<"7", "\n">>,
          said \o <<"1", "2", " ", "o", "n", " ", "c", "l", "u", "s", "t", "e", "r", " ",
                    "c", "1", "\n">>,
          said \o <<"1", "2", " ", "\n">>,
          <<>> }

\* characters a job writes to its error stream
ErrChars == {"e", "\n"}

(***************************************************************************)
(* _parse_squeue_state (slurm.py 51-76).                                   *)
(***************************************************************************)
\* FirstRowState without the skip of the header line
RECURSIVE FirstRowState_no_header_skip(_)
FirstRowState_no_header_skip(lines) ==
    IF lines = <<>> THEN u
    ELSE IF Len(Strip(Head(lines))) = 0 THEN FirstRowState_no_header_skip(Tail(lines))
    ELSE IF Len(Fields(Head(lines))) < 5 THEN IndexError
    ELSE Fields(Head(lines))[5]

\* the for loop over the lines: the state column of the first line that is
\* neither the header nor blank; IndexError when that line has no fifth field
RECURSIVE FirstRowState(_)
FirstRowState(lines) ==
    IF lines = <<>> THEN u
    ELSE IF Contains(JOBID, Head(lines)) THEN FirstRowState(Tail(lines))
    ELSE IF Len(Strip(Head(lines))) = 0 THEN FirstRowState(Tail(lines))
    ELSE IF Len(Fields(Head(lines))) < 5 THEN IndexError
    ELSE Fields(Head(lines))[5]

\* _parse_squeue_state that knows only the codes _track_job logs, any other is "u"
_parse_squeue_state_known_only(squeue_out_, job_id_) ==
    IF Contains(invalid_job_str, squeue_out_) THEN u
    ELSE IF FirstRowState(Split(squeue_out_, "\n")) \in {PD, R, S, IndexError}
    THEN FirstRowState(Split(squeue_out_, "\n"))
    ELSE u

\* the parser itself
_parse_squeue_state(squeue_out_, job_id_) ==
    IF Contains(invalid_job_str, squeue_out_) THEN u
    ELSE FirstRowState(Split(squeue_out_, "\n"))

(***************************************************************************)
(* _get_sbatch_errors (slurm.py 78-89).  A file is [exists, data]; when    *)
(* the file is absent the function logs and goes on to open() it, which    *)
(* raises FileNotFoundError.                                               *)
(***************************************************************************)
NoFile == [exists |-> FALSE, data |-> <<>>]

\* _get_sbatch_errors that returns f.read().strip()
_get_sbatch_errors_stripped(errfile_) ==
    IF ~errfile_.exists THEN FileNotFoundError ELSE Strip(errfile_.data)

_get_sbatch_errors(errfile_) ==
    IF ~errfile_.exists THEN FileNotFoundError ELSE errfile_.data

(***************************************************************************)
(* SlurmJobTask._init_local (slurm.py 105-127): the scratch directory.     *)
(***************************************************************************)
\* os.fstatvfs(0).f_namemax of the coordinator's filesystem
f_namemax == 255

\* time.sleep(30) of _track_job
PollInterval == 30

TwoDigits(n) == <<DigitChars[(n \div 10) + 1], DigitChars[(n % 10) + 1]>>

\* datetime.now().strftime("%Y%m%dt%H%M%S"), t the second of the day
Strftime(t) ==
    <<"2", "0", "2", "0", "0", "1", "0", "1", "t">>
        \o TwoDigits(t \div 3600) \o TwoDigits((t \div 60) % 60) \o TwoDigits(t % 60)

\* Sanitize without the pair for the opening parenthesis
Sanitize_no_paren(name) ==
    Replace(Replace(Replace(Replace(name,
        <<" ">>, <<>>), <<")">>, <<"_">>), <<",">>, <<"_">>), <<"/">>, <<"_">>)

\* the for loop of replacements over folder_name
Sanitize(name) ==
    Replace(Replace(Replace(Replace(Replace(name,
        <<" ">>, <<>>), <<"(">>, <<"_">>), <<")">>, <<"_">>), <<",">>, <<"_">>),
        <<"/">>, <<"_">>)

folder_name(acq, fam, t) ==
    Sanitize(acq \o <<"_">> \o fam \o <<"_", "v">> \o Strftime(t))

\* os.path.join(base_tmp_dir, folder_name)[:max_filename_length]
TmpDirOf(acq, fam, t) ==
    LET joined == base_tmp_dir \o folder_name(acq, fam, t)
    IN  SubSeq(joined, 1, IF Len(joined) < f_namemax THEN Len(joined) ELSE f_namemax)

\* acquisition ids and the task family of the Work Units explored
AcquisitionIds == { <<"e", "(", "1", ")">>, <<"a", " ", "b">> }

task_family == <<"T">>

\* an acquisition id long enough for the joined path to exceed f_namemax
LongId == [i \in 1..LongIdLen |-> IF i % 80 = 0 THEN "/" ELSE "a"]

\* the acquisition ids of the concurrent Work Units
UnitAcquisitionIds == AcquisitionIds \cup {LongId}

\* the Work Units that run _init_local concurrently
Units == {1, 2}

(***************************************************************************)
(* State.                                                                  *)
(***************************************************************************)
VARIABLES
    luigi_local_scheduler, \* FileManager(config_path).luigi_local_scheduler
    acquisition_id,        \* self.acquisition_id
    now,                   \* the clock: second of the day
    pc,                    \* where SlurmJobTask.run is
    exc,                   \* the exception that left run(), "" when none
    tmp_dir,               \* self.tmp_dir, <<>> until _init_local sets it
    dirs,                  \* the directories present on the shared filesystem
    tmp_files,             \* the files present in tmp_dir
    errfile,               \* the file self.errfile (job.err): [exists, data]
    sbatch_rc,             \* exit code of the sbatch command, -1 until it has run
    output,                \* _run_job: output, the standard output of sbatch
    job_id,                \* self.job_id: <<>> until set, then <<n>>
    polls,                 \* squeue queries made
    err_reads,             \* calls of _get_sbatch_errors
    squeue_out,            \* the last answer of squeue, None when there is none
    slurm_status,          \* the last result of _parse_squeue_state
    classification,        \* the terminal message logged, "NONE" until then
    detail,                \* the errors text logged with it
    trace,                 \* the steps of run() so far, in order
    rpc,                   \* where the Remote Runner (slurm_runner.py) is
    partition,             \* job.partition
    level,                 \* job.level
    local_tmp_present,     \* whether the directory job.local_tmp_dir exists
    work_raised,           \* what job.work() raised on the compute node, "" when nothing
    pending,               \* the exception in flight in the runner, "" when none
    exit_status,           \* how the runner's process ended, "none" until then
    rtrace                 \* the steps of the runner so far, in order

coord_vars ==
    <<luigi_local_scheduler, acquisition_id, now, pc, exc, tmp_dir, dirs, tmp_files,
      errfile, sbatch_rc, output, job_id, polls, err_reads, squeue_out, slurm_status, classification,
      detail, trace>>

runner_vars ==
    <<rpc, partition, level, local_tmp_present, work_raised, pending, exit_status, rtrace>>

VARIABLES
    bpc,                   \* where PGE.build is, "idle" between calls
    has_yml,               \* whether the repo holds environment.yml
    has_install,           \* whether the repo holds install.sh
    repo_dir_present,      \* whether self.repo_dir exists
    env_present,           \* whether conda lists self.conda_env_dir
    env_preexisting,       \* whether the environment existed before the first build
    builds,                \* calls of build so far
    clones,                \* calls of _clone_repo so far
    creates,               \* calls of _create_conda_env so far
    installs,              \* calls of _install_repo so far
    rollbacks,             \* runs of the except clause of build so far
    failed,                \* the step that raised RuntimeError in this call, "" when none
    results                \* how each finished call of build ended

pge_vars ==
    <<bpc, has_yml, has_install, repo_dir_present, env_present, env_preexisting, builds,
      clones, creates, installs, rollbacks, failed, results>>

VARIABLES
    clock,                 \* the second that datetime.now() shows to the Work Units
    unit_acq,              \* per Work Unit: its acquisition_id
    unit_pc,               \* per Work Unit: where it is in _init_local
    unit_stamp,            \* per Work Unit: the second it read for its timestamp, -1 before
    unit_tmp_dir,          \* per Work Unit: self.tmp_dir, <<>> before it is set
    scratch_dirs,          \* the directories under base_tmp_dir
    scratch_files          \* the files written there, as [dir, name, by]

unit_vars ==
    <<clock, unit_acq, unit_pc, unit_stamp, unit_tmp_dir, scratch_dirs, scratch_files>>

VARIABLES
    wpc,                   \* where AssignDAACSceneNumbers.work is
    override_output,       \* the task parameter
    metadata,              \* database: acquisition id -> its daac_scene, Absent when not set
    metadata_before,       \* metadata before work was called
    acquisition_log,       \* database: acquisition id -> its processing log entries
    orbit_log,             \* database: the processing log entries of the orbit
    acquisitions,          \* work's list of the acquisitions found
    acq_ids,               \* work's list of acquisition ids
    daac_scene             \* work's counter

daac_vars ==
    <<wpc, override_output, metadata, metadata_before, acquisition_log, orbit_log,
      acquisitions, acq_ids, daac_scene>>

VARIABLES
    requeues               \* times the scheduler has started the submitted job again

VARIABLES
    parse_pc,              \* "call" before _parse_squeue_state is applied, "done" after
    parse_squeue_out,      \* its argument squeue_out
    parse_job_id,          \* its argument job_id
    parse_state            \* what it returned, None before

parse_vars == <<parse_pc, parse_squeue_out, parse_job_id, parse_state>>

\* the state outside the Slurm coordinator and the Remote Runner
ext_vars == <<pge_vars, unit_vars, daac_vars, requeues, parse_vars>>

\* the state outside _parse_squeue_state applied on its own
outside_parse == <<coord_vars, runner_vars, pge_vars, unit_vars, daac_vars, requeues>>

\* the state outside PGE.build
outside_pge == <<coord_vars, runner_vars, unit_vars, daac_vars, requeues, parse_vars>>

\* the state outside the concurrent Work Units
outside_units == <<coord_vars, runner_vars, pge_vars, daac_vars, requeues, parse_vars>>

\* the state outside AssignDAACSceneNumbers
outside_daac == <<coord_vars, runner_vars, pge_vars, unit_vars, requeues, parse_vars>>

vars == <<coord_vars, runner_vars, ext_vars>>

CoordInit ==
    /\ luigi_local_scheduler \in BOOLEAN
    /\ acquisition_id \in AcquisitionIds
    /\ now = 0
    /\ pc = "run"
    /\ exc = ""
    /\ tmp_dir = <<>>
    /\ dirs = {}
    /\ tmp_files = {}
    /\ errfile = NoFile
    /\ sbatch_rc = -1
    /\ output = None
    /\ job_id = <<>>
    /\ polls = 0
    /\ err_reads = 0
    /\ squeue_out = None
    /\ slurm_status = None
    /\ classification = "NONE"
    /\ detail = <<>>
    /\ trace = <<>>

\* an exception leaves run()
Raise(e) == pc' = "raised" /\ exc' = e

(***************************************************************************)
(* SlurmJobTask.run (slurm.py 184-196).                                    *)
(***************************************************************************)
\* Run whose cluster branch goes to _run_job without _init_local
Run_without_init_local ==
    /\ pc = "run"
    /\ pc' = IF luigi_local_scheduler THEN "work" ELSE "build_script"
    /\ UNCHANGED <<luigi_local_scheduler, acquisition_id, sbatch_rc, output, now, exc,
                   tmp_dir, dirs, tmp_files, errfile, job_id, polls, err_reads, squeue_out,
                   slurm_status, classification, detail, trace>>
    /\ UNCHANGED <<runner_vars, ext_vars>>

\* run: the branch on fm.luigi_local_scheduler
Run ==
    /\ pc = "run"
    /\ pc' = IF luigi_local_scheduler THEN "work" ELSE "init_local"
    /\ UNCHANGED <<luigi_local_scheduler, acquisition_id, sbatch_rc, output, now, exc, tmp_dir, dirs,
                   tmp_files, errfile, job_id, polls, err_reads, squeue_out,
                   slurm_status, classification, detail, trace>>
    /\ UNCHANGED <<runner_vars, ext_vars>>

\* run, local mode: self.work(), which returns or raises
WorkLocal ==
    /\ pc = "work"
    /\ \E raised \in {"", "RuntimeError", "Exception"} :
          IF raised = ""
          THEN pc' = "returned" /\ exc' = exc /\ trace' = trace \o <<"work", "return">>
          ELSE Raise(raised) /\ trace' = Append(trace, "work")
    /\ UNCHANGED <<luigi_local_scheduler, acquisition_id, sbatch_rc, output, now, tmp_dir, dirs, tmp_files,
                   errfile, job_id, polls, err_reads, squeue_out, slurm_status,
                   classification, detail>>
    /\ UNCHANGED <<runner_vars, ext_vars>>

\* _init_local: tmp_dir is computed and os.makedirs(self.tmp_dir) creates it
InitLocalMakedirs ==
    /\ pc = "init_local"
    /\ tmp_dir' = TmpDirOf(acquisition_id, task_family, now)
    /\ IF tmp_dir' \in dirs
       THEN Raise("FileExistsError") /\ UNCHANGED <<dirs, trace>>
       ELSE /\ dirs' = dirs \cup {tmp_dir'}
            /\ pc' = "copy_config"
            /\ exc' = exc
            /\ trace' = Append(trace, "makedirs")
    /\ UNCHANGED <<luigi_local_scheduler, acquisition_id, sbatch_rc, output, now, tmp_files, errfile, job_id,
                   polls, err_reads, squeue_out, slurm_status, classification, detail>>
    /\ UNCHANGED <<runner_vars, ext_vars>>

\* _init_local: shutil.copy(self.config_path, self.tmp_dir)
InitLocalCopyConfig ==
    /\ pc = "copy_config"
    /\ tmp_files' = tmp_files \cup {"config"}
    /\ pc' = "dump"
    /\ trace' = Append(trace, "copy_config")
    /\ UNCHANGED <<luigi_local_scheduler, acquisition_id, sbatch_rc, output, now, exc, tmp_dir, dirs, errfile,
                   job_id, polls, err_reads, squeue_out, slurm_status, classification,
                   detail>>
    /\ UNCHANGED <<runner_vars, ext_vars>>

\* _init_local: self._dump(self.tmp_dir) pickles the Work Unit
InitLocalDump ==
    /\ pc = "dump"
    /\ tmp_files' = tmp_files \cup {"job-instance.pickle"}
    /\ pc' = "build_script"
    /\ trace' = Append(trace, "dump")
    /\ UNCHANGED <<luigi_local_scheduler, acquisition_id, sbatch_rc, output, now, exc, tmp_dir, dirs, errfile,
                   job_id, polls, err_reads, squeue_out, slurm_status, classification,
                   detail>>
    /\ UNCHANGED <<runner_vars, ext_vars>>

(***************************************************************************)
(* SlurmJobTask._run_job (slurm.py 129-150).                               *)
(***************************************************************************)
\* _run_job: outfile and errfile are named and _build_sbatch_script writes the script
BuildScript ==
    /\ pc = "build_script"
    /\ tmp_files' = tmp_files \cup {"sbatch_script"}
    /\ pc' = "sbatch"
    /\ trace' = Append(trace, "build_script")
    /\ UNCHANGED <<luigi_local_scheduler, acquisition_id, sbatch_rc, output, now, exc, tmp_dir, dirs, errfile,
                   job_id, polls, err_reads, squeue_out, slurm_status, classification,
                   detail>>
    /\ UNCHANGED <<runner_vars, ext_vars>>

\* what subprocess.check_output("sbatch ...") can give: exit code and standard output
SbatchResults ==
    {[rc |-> 0, out |-> o] : o \in SbatchOutputs} \cup {[rc |-> 1, out |-> <<>>]}

\* AckToken that takes the fourth token ("Submitted batch job <id>") instead of the last
AckToken_fourth(out) ==
    IF Len(Split(out, " ")) >= 4 THEN Split(out, " ")[4] ELSE Last(Split(out, " "))

\* output.decode("utf-8").split(" ")[-1]
AckToken(out) == Last(Split(out, " "))

\* Submit that removes the scratch directory when the submission fails
Submit_cleanup ==
    /\ pc = "sbatch"
    /\ \E res \in SbatchResults :
          /\ sbatch_rc' = res.rc
          /\ IF res.rc # 0
             THEN /\ Raise("CalledProcessError")
                  /\ dirs' = dirs \ {tmp_dir}
                  /\ tmp_files' = {}
                  /\ UNCHANGED <<output, job_id, trace>>
             ELSE /\ output' = res.out
                  /\ IF ~IntParses(AckToken(res.out))
                     THEN /\ Raise("ValueError")
                          /\ dirs' = dirs \ {tmp_dir}
                          /\ tmp_files' = {}
                          /\ UNCHANGED <<job_id, trace>>
                     ELSE /\ job_id' = <<IntOf(AckToken(res.out))>>
                          /\ pc' = "track_sleep"
                          /\ exc' = exc
                          /\ trace' = Append(trace, "submit")
                          /\ UNCHANGED <<dirs, tmp_files>>
    /\ UNCHANGED <<luigi_local_scheduler, acquisition_id, now, tmp_dir,
                   errfile, polls, err_reads, squeue_out, slurm_status, classification,
                   detail>>
    /\ UNCHANGED <<runner_vars, ext_vars>>

\* _run_job: sbatch is run and self.job_id = int(the last token of its output);
\* check_output raises CalledProcessError on a non-zero exit, int() raises ValueError
Submit ==
    /\ pc = "sbatch"
    /\ \E res \in SbatchResults :
          /\ sbatch_rc' = res.rc
          /\ IF res.rc # 0
             THEN Raise("CalledProcessError") /\ UNCHANGED <<output, job_id, trace>>
             ELSE /\ output' = res.out
                  /\ IF ~IntParses(AckToken(res.out))
                     THEN Raise("ValueError") /\ UNCHANGED <<job_id, trace>>
                     ELSE /\ job_id' = <<IntOf(AckToken(res.out))>>
                          /\ pc' = "track_sleep"
                          /\ exc' = exc
                          /\ trace' = Append(trace, "submit")
    /\ UNCHANGED <<luigi_local_scheduler, acquisition_id, now, tmp_dir, dirs, tmp_files,
                   errfile, polls, err_reads, squeue_out, slurm_status, classification,
                   detail>>
    /\ UNCHANGED <<runner_vars, ext_vars>>

(***************************************************************************)
(* SlurmJobTask._track_job (slurm.py 157-182).                             *)
(***************************************************************************)
\* _track_job: time.sleep(30)
TrackSleep ==
    /\ pc = "track_sleep"
    /\ now < MaxPolls * PollInterval
    /\ now' = now + PollInterval
    /\ pc' = "track_poll"
    /\ trace' = Append(trace, "sleep")
    /\ UNCHANGED <<luigi_local_scheduler, acquisition_id, sbatch_rc, output, exc, tmp_dir, dirs, tmp_files,
                   errfile, job_id, polls, err_reads, squeue_out, slurm_status,
                   classification, detail>>
    /\ UNCHANGED <<runner_vars, ext_vars>>

\* what subprocess.check_output(["squeue", "-j", id]) can give
SqueueResults(id) ==
    {[rc |-> 0, out |-> o] : o \in SqueueOutputs(id)} \cup {[rc |-> 1, out |-> <<>>]}

\* Classify with the test inverted ("if errors")
Classify_inverted(errors) ==
    IF Len(errors) # 0 THEN "COMPLETED_OK" ELSE "COMPLETED_WITH_ERRORS"

\* the two terminal messages of _track_job: "if not errors"
Classify(errors) ==
    IF Len(errors) = 0 THEN "COMPLETED_OK" ELSE "COMPLETED_WITH_ERRORS"

\* TrackPoll that raises when the error stream is not empty
TrackPoll_errors_raise ==
    /\ pc = "track_poll"
    /\ polls' = polls + 1
    /\ \E res \in SqueueResults(job_id[1]) :
          IF res.rc # 0
          THEN /\ Raise("CalledProcessError")
               /\ trace' = Append(trace, "poll")
               /\ squeue_out' = None
               /\ slurm_status' = None
               /\ UNCHANGED <<err_reads, classification, detail>>
          ELSE /\ squeue_out' = res.out
               /\ slurm_status' = _parse_squeue_state(res.out, job_id[1])
               /\ IF slurm_status' = IndexError
                  THEN /\ Raise("IndexError")
                       /\ trace' = Append(trace, "poll")
                       /\ UNCHANGED <<err_reads, classification, detail>>
                  ELSE IF slurm_status' # u
                  THEN /\ pc' = "track_sleep"
                       /\ exc' = exc
                       /\ trace' = Append(trace, "poll")
                       /\ UNCHANGED <<err_reads, classification, detail>>
                  ELSE /\ err_reads' = err_reads + 1
                       /\ IF _get_sbatch_errors(errfile) = FileNotFoundError
                          THEN /\ Raise("FileNotFoundError")
                               /\ trace' = Append(trace, "poll")
                               /\ UNCHANGED <<classification, detail>>
                          ELSE /\ classification' = Classify(_get_sbatch_errors(errfile))
                               /\ detail' = _get_sbatch_errors(errfile)
                               /\ IF classification' = "COMPLETED_WITH_ERRORS"
                                  THEN Raise("RuntimeError")
                                  ELSE pc' = "returned" /\ exc' = exc
                               /\ trace' = trace \o <<"poll", "classify", "return">>
    /\ UNCHANGED <<luigi_local_scheduler, acquisition_id, sbatch_rc, output, now, tmp_dir, dirs, tmp_files,
                   errfile, job_id>>
    /\ UNCHANGED <<runner_vars, ext_vars>>

\* _track_job: one pass of the loop body after the sleep: squeue is queried, its
\* answer parsed; on "u" the error stream is read, the outcome logged and the loop
\* left; on any other status the loop goes round
TrackPoll ==
    /\ pc = "track_poll"
    /\ polls' = polls + 1
    /\ \E res \in SqueueResults(job_id[1]) :
          IF res.rc # 0
          THEN /\ Raise("CalledProcessError")
               /\ trace' = Append(trace, "poll")
               /\ squeue_out' = None
               /\ slurm_status' = None
               /\ UNCHANGED <<err_reads, classification, detail>>
          ELSE /\ squeue_out' = res.out
               /\ slurm_status' = _parse_squeue_state(res.out, job_id[1])
               /\ IF slurm_status' = IndexError
                  THEN /\ Raise("IndexError")
                       /\ trace' = Append(trace, "poll")
                       /\ UNCHANGED <<err_reads, classification, detail>>
                  ELSE IF slurm_status' # u
                  THEN /\ pc' = "track_sleep"
                       /\ exc' = exc
                       /\ trace' = Append(trace, "poll")
                       /\ UNCHANGED <<err_reads, classification, detail>>
                  ELSE /\ err_reads' = err_reads + 1
                       /\ IF _get_sbatch_errors(errfile) = FileNotFoundError
                          THEN /\ Raise("FileNotFoundError")
                               /\ trace' = Append(trace, "poll")
                               /\ UNCHANGED <<classification, detail>>
                          ELSE /\ classification' = Classify(_get_sbatch_errors(errfile))
                               /\ detail' = _get_sbatch_errors(errfile)
                               /\ pc' = "returned"
                               /\ exc' = exc
                               /\ trace' = trace \o <<"poll", "classify", "return">>
    /\ UNCHANGED <<luigi_local_scheduler, acquisition_id, sbatch_rc, output, now, tmp_dir, dirs, tmp_files,
                   errfile, job_id>>
    /\ UNCHANGED <<runner_vars, ext_vars>>

\* the submitted job's error stream (#SBATCH --error={errfile}): the file appears,
\* and what the job writes to stderr is appended to it
JobStderr ==
    /\ job_id # <<>>
    /\ pc \in {"track_sleep", "track_poll"}
    /\ IF ~errfile.exists
       THEN errfile' = [exists |-> TRUE, data |-> <<>>]
       ELSE /\ Len(errfile.data) < MaxErrLen
            /\ \E c \in ErrChars : errfile' = [errfile EXCEPT !.data = Append(@, c)]
    /\ UNCHANGED <<luigi_local_scheduler, acquisition_id, sbatch_rc, output, now, pc, exc, tmp_dir, dirs,
                   tmp_files, job_id, polls, err_reads, squeue_out, slurm_status,
                   classification, detail, trace>>
    /\ UNCHANGED <<runner_vars, ext_vars>>

(***************************************************************************)
(* The Remote Runner: emit_main/workflow/slurm_runner.py.                  *)
(***************************************************************************)
\* error_task_dir = job.tmp_dir.replace("/tmp/", "/error/"); error_tmp_dir = ... + "_tmp"
error_tmp_dir(job_tmp_dir) ==
    Replace(job_tmp_dir, <<"/", "t", "m", "p", "/">>, <<"/", "e", "r", "r", "o", "r", "/">>)
        \o <<"_", "t", "m", "p">>

\* DeletesLocalTmp with "and" for the "or"
DeletesLocalTmp_and(part, lev) ==
    part # "debug" /\ (part = "debug" /\ lev # "DEBUG")

\* the finally clause's condition for deleting job.local_tmp_dir
DeletesLocalTmp(part, lev) ==
    part # "debug" \/ (part = "debug" /\ lev # "DEBUG")

RunnerInit ==
    /\ rpc = "main"
    /\ partition \in {"debug", "batch"}
    /\ level \in {"DEBUG", "INFO"}
    /\ local_tmp_present = FALSE
    /\ work_raised = ""
    /\ pending = ""
    /\ exit_status = "none"
    /\ rtrace = <<>>

\* main and the head of _do_work_on_compute_node, once the scheduler has started the
\* submitted job: the assert on work_dir, os.chdir, and the load of job-instance.pickle
RunnerMain ==
    /\ rpc = "main"
    /\ job_id # <<>>
    /\ IF tmp_dir \notin dirs
       THEN pending' = "AssertionError" /\ rpc' = "main_exit"
       ELSE IF "job-instance.pickle" \notin tmp_files
       THEN pending' = "FileNotFoundError" /\ rpc' = "main_exit"
       ELSE pending' = pending /\ rpc' = "makedirs"
    /\ rtrace' = Append(rtrace, "load")
    /\ UNCHANGED <<partition, level, local_tmp_present, work_raised, exit_status>>
    /\ UNCHANGED <<coord_vars, ext_vars>>

\* _do_work_on_compute_node: os.makedirs(job.local_tmp_dir), outside the try
RunnerMakedirs ==
    /\ rpc = "makedirs"
    /\ IF local_tmp_present
       THEN /\ pending' = "FileExistsError"
            /\ rpc' = "main_exit"
            /\ UNCHANGED <<local_tmp_present, rtrace>>
       ELSE /\ local_tmp_present' = TRUE
            /\ pending' = pending
            /\ rpc' = "work"
            /\ rtrace' = Append(rtrace, "makedirs")
    /\ UNCHANGED <<partition, level, work_raised, exit_status>>
    /\ UNCHANGED <<coord_vars, ext_vars>>

\* RunnerWork with "except Exception" for "except RuntimeError"
RunnerWork_except_all ==
    /\ rpc = "work"
    /\ \E raised \in {"", "RuntimeError", "Exception"} :
          /\ work_raised' = raised
          /\ pending' = raised
          /\ rpc' = IF raised # "" THEN "except" ELSE "finally"
    /\ rtrace' = Append(rtrace, "work")
    /\ UNCHANGED <<partition, level, local_tmp_present, exit_status>>
    /\ UNCHANGED <<coord_vars, ext_vars>>

\* the try block: job.work() returns, raises RuntimeError or raises something else
RunnerWork ==
    /\ rpc = "work"
    /\ \E raised \in {"", "RuntimeError", "Exception"} :
          /\ work_raised' = raised
          /\ pending' = raised
          /\ rpc' = IF raised = "RuntimeError" THEN "except" ELSE "finally"
    /\ rtrace' = Append(rtrace, "work")
    /\ UNCHANGED <<partition, level, local_tmp_present, exit_status>>
    /\ UNCHANGED <<coord_vars, ext_vars>>

\* the except RuntimeError clause: shutil.copytree(job.local_tmp_dir, error_tmp_dir),
\* which raises FileExistsError when the target exists, then raise e
RunnerExcept ==
    /\ rpc = "except"
    /\ IF error_tmp_dir(tmp_dir) \in dirs
       THEN pending' = "FileExistsError" /\ dirs' = dirs
       ELSE pending' = pending /\ dirs' = dirs \cup {error_tmp_dir(tmp_dir)}
    /\ rpc' = "finally"
    /\ rtrace' = Append(rtrace, "copytree")
    /\ UNCHANGED <<partition, level, local_tmp_present, work_raised, exit_status>>
    /\ UNCHANGED <<luigi_local_scheduler, acquisition_id, sbatch_rc, output, now, pc, exc, tmp_dir, tmp_files,
                   errfile, job_id, polls, err_reads, squeue_out, slurm_status,
                   classification, detail, trace>>
    /\ UNCHANGED ext_vars

\* RunnerFinally as an else clause: the deletion only when nothing was raised
RunnerFinally_else ==
    /\ rpc = "finally"
    /\ IF DeletesLocalTmp(partition, level) /\ pending = ""
       THEN local_tmp_present' = FALSE /\ rtrace' = Append(rtrace, "rmtree")
       ELSE UNCHANGED <<local_tmp_present, rtrace>>
    /\ rpc' = "main_exit"
    /\ UNCHANGED <<partition, level, work_raised, pending, exit_status>>
    /\ UNCHANGED <<coord_vars, ext_vars>>

\* the finally clause: shutil.rmtree(job.local_tmp_dir) unless debug partition at DEBUG
\* level; then the pending exception, if any, goes on to main
RunnerFinally ==
    /\ rpc = "finally"
    /\ IF DeletesLocalTmp(partition, level)
       THEN local_tmp_present' = FALSE /\ rtrace' = Append(rtrace, "rmtree")
       ELSE UNCHANGED <<local_tmp_present, rtrace>>
    /\ rpc' = "main_exit"
    /\ UNCHANGED <<partition, level, work_raised, pending, exit_status>>
    /\ UNCHANGED <<coord_vars, ext_vars>>

\* main: "except Exception as e: print(e); raise" ends the process non-zero; with no
\* exception main returns and the process ends with 0
RunnerMainExit ==
    /\ rpc = "main_exit"
    /\ exit_status' = IF pending = "" THEN "zero" ELSE "nonzero"
    /\ rpc' = "exited"
    /\ rtrace' = Append(rtrace, IF pending = "" THEN "return" ELSE "raise")
    /\ UNCHANGED <<partition, level, local_tmp_present, work_raised, pending>>
    /\ UNCHANGED <<coord_vars, ext_vars>>

(***************************************************************************)
(* The specification.                                                      *)
(***************************************************************************)
(***************************************************************************)
(* PGE.build (pge.py 104-118): clone the versioned repo, create its conda  *)
(* environment, run its install script; on RuntimeError roll back.         *)
(***************************************************************************)
\* the state that PGE.build does not touch
frozen_pge == <<has_yml, has_install, env_preexisting>>

\* a repo and a conda installation before the first call of build
PgeInit ==
    /\ bpc = "idle"
    /\ has_yml \in BOOLEAN
    /\ has_install \in BOOLEAN
    /\ repo_dir_present = FALSE
    /\ env_present \in BOOLEAN
    /\ env_preexisting = env_present
    /\ builds = 0
    /\ clones = 0
    /\ creates = 0
    /\ installs = 0
    /\ rollbacks = 0
    /\ failed = ""
    /\ results = <<>>

\* _conda_env_exists: the exit status of "conda env list | grep conda_env_dir" is 0
_conda_env_exists == env_present

\* BuildCall without the test of the repo directory: every call provisions
BuildCall_always_clone ==
    /\ bpc = "idle"
    /\ builds < MaxBuilds
    /\ builds' = builds + 1
    /\ failed' = ""
    /\ bpc' = "clone"
    /\ UNCHANGED <<repo_dir_present, env_present, clones, creates, installs, rollbacks, results>>
    /\ UNCHANGED frozen_pge
    /\ UNCHANGED outside_pge

\* build is called: the test os.path.exists(self.repo_dir) at the head of the try block
BuildCall ==
    /\ bpc = "idle"
    /\ builds < MaxBuilds
    /\ builds' = builds + 1
    /\ failed' = ""
    /\ bpc' = IF repo_dir_present THEN "return" ELSE "clone"
    /\ UNCHANGED <<repo_dir_present, env_present, clones, creates, installs, rollbacks, results>>
    /\ UNCHANGED frozen_pge
    /\ UNCHANGED outside_pge

\* _clone_repo: git clone; a non-zero return code raises RuntimeError and may leave a
\* partial repo directory behind
_clone_repo ==
    /\ bpc = "clone"
    /\ clones' = clones + 1
    /\ \E returncode \in {0, 1} :
          IF returncode # 0
          THEN /\ failed' = "clone"
               /\ repo_dir_present' \in BOOLEAN
               /\ bpc' = "rollback"
          ELSE /\ failed' = failed
               /\ repo_dir_present' = TRUE
               /\ bpc' = "env"
    /\ UNCHANGED <<env_present, builds, creates, installs, rollbacks, results>>
    /\ UNCHANGED frozen_pge
    /\ UNCHANGED outside_pge

\* "if not self._conda_env_exists(): self._create_conda_env()": conda env create runs
\* only when the repo holds environment.yml; a non-zero return code raises RuntimeError
\* and may leave a partial environment behind
_create_conda_env ==
    /\ bpc = "env"
    /\ IF _conda_env_exists
       THEN /\ bpc' = "install"
            /\ UNCHANGED <<creates, env_present, failed>>
       ELSE /\ creates' = creates + 1
            /\ IF has_yml
               THEN \E returncode \in {0, 1} :
                       IF returncode # 0
                       THEN /\ failed' = "create"
                            /\ env_present' \in BOOLEAN
                            /\ bpc' = "rollback"
                       ELSE /\ failed' = failed
                            /\ env_present' = TRUE
                            /\ bpc' = "install"
               ELSE /\ bpc' = "install"
                    /\ UNCHANGED <<env_present, failed>>
    /\ UNCHANGED <<repo_dir_present, builds, clones, installs, rollbacks, results>>
    /\ UNCHANGED frozen_pge
    /\ UNCHANGED outside_pge

\* _install_repo: install.sh runs when the repo holds it; a non-zero return code raises
\* RuntimeError
_install_repo ==
    /\ bpc = "install"
    /\ installs' = installs + 1
    /\ IF has_install
       THEN \E returncode \in {0, 1} :
               IF returncode # 0
               THEN failed' = "install" /\ bpc' = "rollback"
               ELSE failed' = failed /\ bpc' = "return"
       ELSE failed' = failed /\ bpc' = "return"
    /\ UNCHANGED <<repo_dir_present, env_present, builds, clones, creates, rollbacks, results>>
    /\ UNCHANGED frozen_pge
    /\ UNCHANGED outside_pge

\* BuildRollback that removes the environment only when a call of build created it
BuildRollback_created_only ==
    /\ bpc = "rollback"
    /\ rollbacks' = rollbacks + 1
    /\ repo_dir_present' = FALSE
    /\ env_present' = IF _conda_env_exists /\ creates > 0 THEN FALSE ELSE env_present
    /\ bpc' = "return"
    /\ UNCHANGED <<builds, clones, creates, installs, failed, results>>
    /\ UNCHANGED frozen_pge
    /\ UNCHANGED outside_pge

\* BuildRollback that removes the repo directory only
BuildRollback_repo_only ==
    /\ bpc = "rollback"
    /\ rollbacks' = rollbacks + 1
    /\ repo_dir_present' = FALSE
    /\ env_present' = env_present
    /\ bpc' = "return"
    /\ UNCHANGED <<builds, clones, creates, installs, failed, results>>
    /\ UNCHANGED frozen_pge
    /\ UNCHANGED outside_pge

\* the except clause of build: rm -rf repo_dir, conda env remove when the environment is
\* listed, print(e); the error is not raised again
BuildRollback ==
    /\ bpc = "rollback"
    /\ rollbacks' = rollbacks + 1
    /\ repo_dir_present' = FALSE
    /\ env_present' = IF _conda_env_exists THEN FALSE ELSE env_present
    /\ bpc' = "return"
    /\ UNCHANGED <<builds, clones, creates, installs, failed, results>>
    /\ UNCHANGED frozen_pge
    /\ UNCHANGED outside_pge

\* build is left: by falling off its end, after the try block or after the except clause
BuildReturn ==
    /\ bpc = "return"
    /\ results' = Append(results, [failed |-> failed, ended |-> "returned",
                                   clones |-> clones, creates |-> creates,
                                   installs |-> installs, rollbacks |-> rollbacks,
                                   repo_dir_present |-> repo_dir_present,
                                   env_present |-> env_present])
    /\ bpc' = "idle"
    /\ UNCHANGED <<repo_dir_present, env_present, builds, clones, creates, installs,
                   rollbacks, failed>>
    /\ UNCHANGED frozen_pge
    /\ UNCHANGED outside_pge

\* PGE.build stays idle
PgeOff ==
    /\ PgeInit
    /\ has_yml
    /\ has_install
    /\ ~env_present

\* the coordinator and the Remote Runner stay idle
SlurmOff ==
    /\ CoordInit
    /\ RunnerInit
    /\ requeues = 0
    /\ luigi_local_scheduler
    /\ acquisition_id = <<"a", " ", "b">>
    /\ partition = "batch"
    /\ level = "INFO"

(***************************************************************************)
(* Two Work Units in _init_local at once (slurm.py 105-127), each in its   *)
(* own luigi worker process; the statements of the two interleave.         *)
(***************************************************************************)
UnitsInit ==
    /\ clock = 0
    /\ unit_acq \in [Units -> UnitAcquisitionIds]
    /\ unit_pc = [i \in Units |-> "init_local"]
    /\ unit_stamp = [i \in Units |-> -1]
    /\ unit_tmp_dir = [i \in Units |-> <<>>]
    /\ scratch_dirs = {}
    /\ scratch_files = {}

\* the concurrent Work Units stay idle
UnitsOff ==
    /\ UnitsInit
    /\ unit_acq = [i \in Units |-> <<"a", " ", "b">>]

\* the wall clock moves on by a second
ClockTick ==
    /\ clock < MaxSeconds
    /\ clock' = clock + 1
    /\ UNCHANGED <<unit_acq, unit_pc, unit_stamp, unit_tmp_dir, scratch_dirs, scratch_files>>
    /\ UNCHANGED outside_units

\* _init_local 109-119: the timestamp is read and self.tmp_dir is named
UnitNameTmpDir(i) ==
    /\ unit_pc[i] = "init_local"
    /\ unit_stamp' = [unit_stamp EXCEPT ![i] = clock]
    /\ unit_tmp_dir' = [unit_tmp_dir EXCEPT ![i] = TmpDirOf(unit_acq[i], task_family, clock)]
    /\ unit_pc' = [unit_pc EXCEPT ![i] = "makedirs"]
    /\ UNCHANGED <<clock, unit_acq, scratch_dirs, scratch_files>>
    /\ UNCHANGED outside_units

\* _init_local 120: os.makedirs(self.tmp_dir) raises FileExistsError when the directory
\* is there already
UnitMakedirs(i) ==
    /\ unit_pc[i] = "makedirs"
    /\ IF unit_tmp_dir[i] \in scratch_dirs
       THEN /\ unit_pc' = [unit_pc EXCEPT ![i] = "FileExistsError"]
            /\ scratch_dirs' = scratch_dirs
       ELSE /\ unit_pc' = [unit_pc EXCEPT ![i] = "copy_config"]
            /\ scratch_dirs' = scratch_dirs \cup {unit_tmp_dir[i]}
    /\ UNCHANGED <<clock, unit_acq, unit_stamp, unit_tmp_dir, scratch_files>>
    /\ UNCHANGED outside_units

\* _init_local 123: shutil.copy(self.config_path, self.tmp_dir)
UnitCopyConfig(i) ==
    /\ unit_pc[i] = "copy_config"
    /\ scratch_files' = scratch_files \cup
           {[dir |-> unit_tmp_dir[i], name |-> "config", by |-> i]}
    /\ unit_pc' = [unit_pc EXCEPT ![i] = "dump"]
    /\ UNCHANGED <<clock, unit_acq, unit_stamp, unit_tmp_dir, scratch_dirs>>
    /\ UNCHANGED outside_units

\* _init_local 127: self._dump(self.tmp_dir)
UnitDump(i) ==
    /\ unit_pc[i] = "dump"
    /\ scratch_files' = scratch_files \cup
           {[dir |-> unit_tmp_dir[i], name |-> "job-instance.pickle", by |-> i]}
    /\ unit_pc' = [unit_pc EXCEPT ![i] = "done"]
    /\ UNCHANGED <<clock, unit_acq, unit_stamp, unit_tmp_dir, scratch_dirs>>
    /\ UNCHANGED outside_units

(***************************************************************************)
(* AssignDAACSceneNumbers.work (daac_helper_tasks.py 58-128).  The         *)
(* database manager is a keyed store of acquisition metadata plus          *)
(* append-only processing logs.                                            *)
(***************************************************************************)
\* the acquisitions an orbit can hold; ids are digit strings so that the order of
\* list.sort() on str is the order of their characters
AcqPool == { <<"1", "0">>, <<"2">>, <<"9">> }

\* "daac_scene" not in acq
Absent == <<"Absent">>

\* a < b for str, character by character, a proper prefix first
StrLess(a, b) ==
    \E k \in 1..Len(b) :
        /\ k - 1 <= Len(a)
        /\ \A j \in 1..(k - 1) : a[j] = b[j]
        /\ (Len(a) = k - 1 \/ DigitVal(a[k]) < DigitVal(b[k]))

\* list(set(ids)) followed by sort()
RECURSIVE SortedList(_)
SortedList(ids) ==
    IF ids = {} THEN <<>>
    ELSE LET least == CHOOSE a \in ids : \A b \in ids \ {a} : StrLess(a, b)
         IN  <<least>> \o SortedList(ids \ {least})

\* s.zfill(width) for an unsigned s
zfill(s, width) ==
    IF Len(s) >= width THEN s ELSE [i \in 1..(width - Len(s)) |-> "0"] \o s

\* the sequences that list each element of a set once
Orderings(ids) ==
    { q \in [1..Cardinality(ids) -> ids] : \A a \in ids : \E i \in DOMAIN q : q[i] = a }

\* an orbit with some acquisitions, each with or without a scene number from an earlier
\* run, and empty processing logs
DaacInit ==
    /\ wpc = "find"
    /\ override_output \in BOOLEAN
    /\ \E orbit \in SUBSET AcqPool :
          metadata \in [orbit -> {Absent, <<"0", "0", "7">>}]
    /\ metadata_before = metadata
    /\ acquisition_log = [a \in DOMAIN metadata |-> <<>>]
    /\ orbit_log = <<>>
    /\ acquisitions = <<>>
    /\ acq_ids = <<>>
    /\ daac_scene = 0

\* AssignDAACSceneNumbers stays idle
DaacOff ==
    /\ DaacInit
    /\ ~override_output
    /\ DOMAIN metadata = {}

\* work 68-69: the science and the dark acquisitions of the orbit, in the order the
\* database returns them
WorkFind ==
    /\ wpc = "find"
    /\ \E q \in Orderings(DOMAIN metadata) :
          acquisitions' = [i \in DOMAIN q |->
                              [acquisition_id |-> q[i], daac_scene |-> metadata[q[i]]]]
    /\ wpc' = "check"
    /\ UNCHANGED <<override_output, metadata, metadata_before, acquisition_log, orbit_log,
                   acq_ids, daac_scene>>
    /\ UNCHANGED outside_daac

\* WorkCheck whose guard is "0 < count" only when override_output is on
WorkCheck_override_only ==
    /\ wpc = "check"
    /\ LET count == Cardinality({i \in DOMAIN acquisitions :
                                    acquisitions[i].daac_scene # Absent})
           ids == [i \in DOMAIN acquisitions |-> acquisitions[i].acquisition_id]
       IN  IF override_output /\ 0 < count /\ count < Len(acquisitions)
           THEN /\ wpc' = "RuntimeError"
                /\ acq_ids' = ids
                /\ daac_scene' = daac_scene
           ELSE /\ acq_ids' = SortedList({ids[i] : i \in DOMAIN ids})
                /\ daac_scene' = 1
                /\ wpc' = IF acq_ids' = <<>> THEN "orbit_log" ELSE "update"
    /\ UNCHANGED <<override_output, metadata, metadata_before, acquisition_log, orbit_log,
                   acquisitions>>
    /\ UNCHANGED outside_daac

\* WorkCheck that numbers the ids in the order found, without the sort
WorkCheck_unsorted ==
    /\ wpc = "check"
    /\ LET count == Cardinality({i \in DOMAIN acquisitions :
                                    acquisitions[i].daac_scene # Absent})
           ids == [i \in DOMAIN acquisitions |-> acquisitions[i].acquisition_id]
       IN  IF ~override_output /\ 0 < count /\ count < Len(acquisitions)
           THEN /\ wpc' = "RuntimeError"
                /\ acq_ids' = ids
                /\ daac_scene' = daac_scene
           ELSE /\ acq_ids' = ids
                /\ daac_scene' = 1
                /\ wpc' = IF acq_ids' = <<>> THEN "orbit_log" ELSE "update"
    /\ UNCHANGED <<override_output, metadata, metadata_before, acquisition_log, orbit_log,
                   acquisitions>>
    /\ UNCHANGED outside_daac

\* work 72-86: count the acquisitions that carry a scene number, raise when only some
\* do and override_output is off, otherwise sort the distinct ids and start at 1
WorkCheck ==
    /\ wpc = "check"
    /\ LET count == Cardinality({i \in DOMAIN acquisitions :
                                    acquisitions[i].daac_scene # Absent})
           ids == [i \in DOMAIN acquisitions |-> acquisitions[i].acquisition_id]
       IN  IF ~override_output /\ 0 < count /\ count < Len(acquisitions)
           THEN /\ wpc' = "RuntimeError"
                /\ acq_ids' = ids
                /\ daac_scene' = daac_scene
           ELSE /\ acq_ids' = SortedList({ids[i] : i \in DOMAIN ids})
                /\ daac_scene' = 1
                /\ wpc' = IF acq_ids' = <<>> THEN "orbit_log" ELSE "update"
    /\ UNCHANGED <<override_output, metadata, metadata_before, acquisition_log, orbit_log,
                   acquisitions>>
    /\ UNCHANGED outside_daac

\* work 88: dm.update_acquisition_metadata(acq_id, {"daac_scene": str(daac_scene).zfill(3)})
WorkUpdate ==
    /\ wpc = "update"
    /\ metadata' = [metadata EXCEPT ![acq_ids[daac_scene]] = zfill(StrOf(daac_scene), 3)]
    /\ wpc' = "log"
    /\ UNCHANGED <<override_output, metadata_before, acquisition_log, orbit_log,
                   acquisitions, acq_ids, daac_scene>>
    /\ UNCHANGED outside_daac

\* work 90-109: dm.insert_acquisition_log_entry(acq_id, log_entry), daac_scene += 1, and
\* the next turn of the loop
WorkLog ==
    /\ wpc = "log"
    /\ acquisition_log' =
           [acquisition_log EXCEPT ![acq_ids[daac_scene]] =
               Append(@, [daac_scene_number |-> zfill(StrOf(daac_scene), 3)])]
    /\ daac_scene' = daac_scene + 1
    /\ wpc' = IF daac_scene' > Len(acq_ids) THEN "orbit_log" ELSE "update"
    /\ UNCHANGED <<override_output, metadata, metadata_before, orbit_log, acquisitions,
                   acq_ids>>
    /\ UNCHANGED outside_daac

\* work 112-128: dm.insert_orbit_log_entry(self.orbit_id, log_entry)
WorkOrbitLog ==
    /\ wpc = "orbit_log"
    /\ orbit_log' = Append(orbit_log, [number_of_scenes |-> daac_scene - 1])
    /\ wpc' = "done"
    /\ UNCHANGED <<override_output, metadata, metadata_before, acquisition_log,
                   acquisitions, acq_ids, daac_scene>>
    /\ UNCHANGED outside_daac

(***************************************************************************)
(* _parse_squeue_state (slurm.py 51-76) applied on its own, to squeue      *)
(* answers of up to MaxLines lines that may list other jobs as well.       *)
(***************************************************************************)
\* the job ids asked for and listed
ParseJobIds == {7, 12}

\* the lines an answer of squeue is made of
SqueueLines ==
    {SqueueHeader, <<" ", "\n">>}
        \cup {SqueueRow(id, st) : id \in ParseJobIds, st \in {PD, R}}

\* the lines of a sequence of lines, one after the other
RECURSIVE Concat(_)
Concat(ls) == IF ls = <<>> THEN <<>> ELSE Head(ls) \o Concat(Tail(ls))

\* the answers of squeue handed to the parser
ParseInputs ==
    {SqueueInvalid}
        \cup UNION {{Concat(ls) : ls \in [1..n -> SqueueLines]} : n \in 0..MaxLines}

ParseInit ==
    /\ parse_pc = "call"
    /\ parse_squeue_out \in ParseInputs
    /\ parse_job_id \in ParseJobIds
    /\ parse_state = None

\* the parser is not applied on its own
ParseOff ==
    /\ ParseInit
    /\ parse_squeue_out = <<>>
    /\ parse_job_id = 12

\* the call _parse_squeue_state(squeue_out, job_id)
ParseCall ==
    /\ parse_pc = "call"
    /\ parse_state' = _parse_squeue_state(parse_squeue_out, parse_job_id)
    /\ parse_pc' = "done"
    /\ UNCHANGED <<parse_squeue_out, parse_job_id>>
    /\ UNCHANGED outside_parse

(***************************************************************************)
(* The scheduler starts the submitted job again (a requeue after a node    *)
(* failure or by the operator): the wrapper script of _build_sbatch_script *)
(* runs slurm_runner.py main once more on the same tmp_dir (slurm_runner.py*)
(* 46-62), in a new process, on this or on another compute node.           *)
(***************************************************************************)
RunnerRequeue ==
    /\ rpc # "main"
    /\ requeues < MaxRequeues
    /\ requeues' = requeues + 1
    /\ rpc' = "main"
    /\ work_raised' = ""
    /\ pending' = ""
    /\ exit_status' = "none"
    /\ rtrace' = <<>>
    /\ local_tmp_present' \in {local_tmp_present, FALSE}
    /\ UNCHANGED <<partition, level>>
    /\ UNCHANGED <<coord_vars, pge_vars, unit_vars, daac_vars, parse_vars>>

Init == CoordInit /\ RunnerInit /\ PgeOff /\ UnitsOff /\ DaacOff /\ requeues = 0 /\ ParseOff

Next ==
    \/ Run
    \/ WorkLocal
    \/ InitLocalMakedirs
    \/ InitLocalCopyConfig
    \/ InitLocalDump
    \/ BuildScript
    \/ Submit
    \/ TrackSleep
    \/ TrackPoll
    \/ JobStderr
    \/ RunnerMain
    \/ RunnerMakedirs
    \/ RunnerWork
    \/ RunnerExcept
    \/ RunnerFinally
    \/ RunnerMainExit

Spec == Init /\ [][Next]_vars

\* PGE.build called up to MaxBuilds times for one repo and version
InitPGE == PgeInit /\ SlurmOff /\ UnitsOff /\ DaacOff /\ ParseOff

NextPGE ==
    \/ BuildCall
    \/ _clone_repo
    \/ _create_conda_env
    \/ _install_repo
    \/ BuildRollback
    \/ BuildReturn

SpecPGE == InitPGE /\ [][NextPGE]_vars

\* two Work Units in _init_local at the same time
InitUnits == UnitsInit /\ SlurmOff /\ PgeOff /\ DaacOff /\ ParseOff

NextUnits ==
    \/ ClockTick
    \/ \E i \in Units : UnitNameTmpDir(i)
    \/ \E i \in Units : UnitMakedirs(i)
    \/ \E i \in Units : UnitCopyConfig(i)
    \/ \E i \in Units : UnitDump(i)

SpecUnits == InitUnits /\ [][NextUnits]_vars

\* AssignDAACSceneNumbers.work called once on an orbit
InitDaac == DaacInit /\ SlurmOff /\ PgeOff /\ UnitsOff /\ ParseOff

NextDaac ==
    \/ WorkFind
    \/ WorkCheck
    \/ WorkUpdate
    \/ WorkLog
    \/ WorkOrbitLog

SpecDaac == InitDaac /\ [][NextDaac]_vars

\* the run of a Work Unit whose job the scheduler may start again
InitRequeue == Init

NextRequeue ==
    \/ Next
    \/ RunnerRequeue

SpecRequeue == InitRequeue /\ [][NextRequeue]_vars

\* _parse_squeue_state applied once to an answer of squeue
InitParse == ParseInit /\ SlurmOff /\ PgeOff /\ UnitsOff /\ DaacOff

NextParse == ParseCall

SpecParse == InitParse /\ [][NextParse]_vars

(***************************************************************************)
(* Properties.                                                             *)
(***************************************************************************)
InTrace(e, t) == \E i \in 1..Len(t) : t[i] = e

IsPrefix(a, b) == Len(a) <= Len(b) /\ SubSeq(b, 1, Len(a)) = a

\* this step is a poll of _track_job whose squeue answer carries no row for the job
PollNoRow == polls' = polls + 1 /\ squeue_out' \in NoRowOutputs

\* this step is a poll of _track_job whose squeue answer lists the job
PollRow == polls' = polls + 1 /\ squeue_out' \in RowOutputs(job_id[1])

\* C1: a poll that finds no row for the job while job.err exists and is empty logs
\* COMPLETED WITH NO ERRORS and leaves the loop in that same step; once a terminal
\* message is logged there is no further sleep and no further squeue query.
C1_EmptyErrorStreamCompletesOk ==
    [][ /\ (PollNoRow /\ errfile.exists /\ errfile.data = <<>>)
            => (classification' = "COMPLETED_OK" /\ pc' = "returned" /\ now' = now)
        /\ classification # "NONE" => (now' = now /\ polls' = polls) ]_vars

C1_Witness ==
    /\ classification = "COMPLETED_OK"
    /\ pc = "returned"
    /\ squeue_out \in NoRowOutputs
    /\ errfile.exists

\* C2: a poll that finds no row for the job while job.err is non-empty logs COMPLETED
\* WITH ERRORS, the text logged with it is the whole content of job.err, and the loop
\* is left in that same step.
C2_NonEmptyErrorStreamSurfaced ==
    [][ (PollNoRow /\ errfile.exists /\ errfile.data # <<>>)
            => /\ classification' = "COMPLETED_WITH_ERRORS"
               /\ detail' = errfile.data
               /\ pc' = "returned"
               /\ now' = now ]_vars

C2_Witness ==
    /\ classification = "COMPLETED_WITH_ERRORS"
    /\ pc = "returned"
    /\ Len(detail) = MaxErrLen
    /\ detail = errfile.data

\* C3: a poll that finds no row for the job while job.err does not exist is treated as
\* an empty error stream: COMPLETED WITH NO ERRORS is logged and nothing is raised.
C3_AbsentErrorStreamIsEmpty ==
    [][ (PollNoRow /\ ~errfile.exists)
            => (classification' = "COMPLETED_OK" /\ pc' = "returned" /\ exc' = "") ]_vars

\* C4: a poll whose squeue answer lists the job, whatever its state code, logs no
\* terminal message, does not read job.err, raises nothing and goes round the loop.
C4_ListedJobKeepsPolling ==
    [][ PollRow
            => /\ pc' = "track_sleep"
               /\ classification' = "NONE"
               /\ err_reads' = err_reads
               /\ exc' = "" ]_vars

C4_Witness ==
    /\ polls = MaxPolls
    /\ pc = "track_sleep"
    /\ squeue_out \in RowOutputs(job_id[1])
    /\ slurm_status \notin {PD, R, S}

\* C5: every squeue answer without a row for the job (empty, header and blank lines
\* only, or holding "Invalid job id specified") is parsed to "u" and leads _track_job
\* to read job.err.
C5_NoRowParsesToUnknown ==
    (polls > 0 /\ squeue_out \in NoRowOutputs) => (slurm_status = u /\ err_reads = 1)

C5_Witness ==
    /\ squeue_out = SqueueInvalid
    /\ slurm_status = u
    /\ err_reads = 1

\* the token is (surrounding whitespace aside) an optionally signed run of decimal digits
DecimalInteger(tok) ==
    \E i \in 1..Len(tok), j \in 1..Len(tok) :
        /\ i <= j
        /\ \A k \in 1..Len(tok) : (k < i \/ k > j) => tok[k] \in Whitespace
        /\ \A k \in i..j :
              tok[k] \in {"0", "1", "2", "3", "4", "5", "6", "7", "8", "9"}
                  \/ (k = i /\ i < j /\ tok[k] \in {"+", "-"})

\* the sbatch command has run and failed, or its last space-separated token is no integer
SubmissionFailed ==
    /\ sbatch_rc # -1
    /\ sbatch_rc # 0 \/ ~DecimalInteger(Last(Split(output, " ")))

\* C6: when sbatch exits non-zero or the last space-separated token of its output is
\* not a decimal integer, run() ends with that failure raised, no job id is assigned,
\* and _track_job is never entered: no sleep, no squeue query.
C6_FailedSubmissionNeverPolls ==
    SubmissionFailed
        => /\ pc = "raised"
           /\ exc = (IF sbatch_rc # 0 THEN "CalledProcessError" ELSE "ValueError")
           /\ job_id = <<>>
           /\ polls = 0
           /\ now = 0
           /\ classification = "NONE"

C6_Witness ==
    /\ sbatch_rc = 0
    /\ output # <<>>
    /\ exc = "ValueError"
    /\ job_id = <<>>

\* k sleep/poll cycles
RECURSIVE Cycles(_)
Cycles(k) == IF k = 0 THEN <<>> ELSE <<"sleep", "poll">> \o Cycles(k - 1)

\* the steps of a cluster-mode run() that polls k times
ClusterRun(k) ==
    <<"makedirs", "copy_config", "dump", "build_script", "submit">>
        \o Cycles(k) \o <<"classify", "return">>

\* C7: in cluster mode the steps of run() happen only in the order: scratch directory
\* created, configuration copied, Work Unit pickled, job submitted and job id set,
\* sleep/poll cycles, terminal message, return.  No poll precedes the job id and its
\* scratch files, and run() does not return before a terminal message.
C7_ClusterRunOrder ==
    ~luigi_local_scheduler
        => /\ \E k \in 1..MaxPolls : IsPrefix(trace, ClusterRun(k))
           /\ polls > 0 => job_id # <<>>
           /\ job_id # <<>>
                 => (tmp_dir \in dirs /\ {"config", "job-instance.pickle"} \subseteq tmp_files)
           /\ classification # "NONE" => polls > 0
           /\ pc = "returned" => classification # "NONE"

C7_Witness ==
    /\ ~luigi_local_scheduler
    /\ pc = "returned"
    /\ polls = 2
    /\ trace = ClusterRun(2)

\* the steps of the runner when job.work() raises RuntimeError
RunnerFailureRun ==
    <<"load", "makedirs", "work", "copytree">>
        \o (IF partition = "debug" /\ level = "DEBUG" THEN <<>> ELSE <<"rmtree">>)
        \o <<"raise">>

\* C8: when job.work() raises RuntimeError the runner's steps are: copy of the local
\* temp directory to the error area, then its deletion (unless debug partition at DEBUG
\* level), then the failure reaches main's caller.  The directory is not gone before
\* the copy was made, and whenever work raised, the deletion is done before the exit.
C8_RelocateThenDeleteThenRaise ==
    /\ work_raised = "RuntimeError"
          => /\ IsPrefix(rtrace, RunnerFailureRun)
             /\ rpc = "exited" => (rtrace = RunnerFailureRun /\ exit_status = "nonzero")
             /\ (~local_tmp_present) => error_tmp_dir(tmp_dir) \in dirs
    /\ (work_raised # "" /\ rpc \in {"main_exit", "exited"}
            /\ ~(partition = "debug" /\ level = "DEBUG"))
          => (~local_tmp_present /\ InTrace("rmtree", rtrace))

C8_Witness ==
    /\ rpc = "exited"
    /\ work_raised = "RuntimeError"
    /\ ~local_tmp_present
    /\ rtrace = <<"load", "makedirs", "work", "copytree", "rmtree", "raise">>

\* C9: once the runner has created the local temp directory and exited, by whatever
\* path, that directory exists exactly when partition = "debug" and level = "DEBUG".
C9_TempDirKeptOnlyInDebug ==
    (rpc = "exited" /\ InTrace("makedirs", rtrace))
        => (local_tmp_present <=> (partition = "debug" /\ level = "DEBUG"))

C9_Witness ==
    /\ rpc = "exited"
    /\ work_raised = "Exception"
    /\ partition = "debug"
    /\ level = "INFO"
    /\ ~local_tmp_present

\* the error-area path the spec gives for a scratch path under base_tmp_dir
ErrorAreaPath(path) ==
    <<"/", "b", "e", "e", "g", "f", "s", "/", "s", "c", "r", "a", "t", "c", "h",
      "/", "e", "r", "r", "o", "r", "/">>
        \o SubSeq(path, Len(base_tmp_dir) + 1, Len(path)) \o <<"_", "t", "m", "p">>

\* C10: the error area holds a copy (at the scratch path with /tmp/ replaced by
\* /error/ and _tmp appended) exactly when job.work() raised RuntimeError, nothing
\* else is ever created next to the scratch directory, and whenever job.work() raised
\* anything the process ends non-zero.
C10_RelocationOnlyOnRuntimeError ==
    /\ dirs \subseteq {tmp_dir, ErrorAreaPath(tmp_dir)}
    /\ ErrorAreaPath(tmp_dir) \in dirs => work_raised = "RuntimeError"
    /\ (work_raised = "RuntimeError" /\ rpc \in {"finally", "main_exit", "exited"})
          => ErrorAreaPath(tmp_dir) \in dirs
    /\ (rpc = "exited" /\ work_raised # "") => exit_status = "nonzero"

C10_Witness ==
    /\ rpc = "exited"
    /\ work_raised = "RuntimeError"
    /\ ErrorAreaPath(tmp_dir) \in dirs
    /\ exit_status = "nonzero"
    /\ partition = "debug"
    /\ level = "DEBUG"

\* two calls of build have finished and the first one succeeded
TwoBuildsFirstOk == Len(results) >= 2 /\ results[1].failed = ""

\* what a call of build did, from the counters at its end and at the end of the call
\* before it
DidNothing(i) ==
    /\ results[i].clones = results[i - 1].clones
    /\ results[i].creates = results[i - 1].creates
    /\ results[i].installs = results[i - 1].installs
    /\ results[i].rollbacks = results[i - 1].rollbacks

\* C11 as stated: after two calls of build of which the first succeeded, the clone, the
\* environment creation and the install step have each been performed exactly once, and
\* the second call performed no clone, no creation, no install and no rollback
C11_EachStepExactlyOnce ==
    TwoBuildsFirstOk =>
        /\ results[2].clones = 1
        /\ results[2].creates = 1
        /\ results[2].installs = 1
        /\ results[2].rollbacks = 0
        /\ DidNothing(2)

\* C11 amended: after two calls of build of which the first succeeded, the clone and the
\* install step have each been performed exactly once and the environment creation at
\* most once (not at all when the environment existed before the first call); the second
\* call found the repo directory present and performed no clone, no creation, no install
\* and no rollback
C11_SecondBuildDoesNothing ==
    TwoBuildsFirstOk =>
        /\ results[2].clones = 1
        /\ results[2].creates = (IF env_preexisting THEN 0 ELSE 1)
        /\ results[2].installs = 1
        /\ results[2].rollbacks = 0
        /\ results[1].repo_dir_present
        /\ results[2].failed = ""
        /\ DidNothing(2)

C11_Witness ==
    /\ TwoBuildsFirstOk
    /\ ~env_preexisting
    /\ results[2].clones = 1
    /\ results[2].creates = 1
    /\ results[2].installs = 1

\* the counters at the start of call i of build
Before(i) ==
    IF i = 1
    THEN [clones |-> 0, creates |-> 0, installs |-> 0, rollbacks |-> 0]
    ELSE results[i - 1]

\* call i of build cloned, created the environment with conda env create, and then
\* failed in the install step
InstallFailedAfterCreate(i) ==
    /\ results[i].failed = "install"
    /\ results[i].clones = Before(i).clones + 1
    /\ results[i].creates = Before(i).creates + 1
    /\ has_yml

\* C12: when the clone and the environment creation succeed and the install step fails,
\* at the end of build neither the repo directory nor the environment remains, and a
\* later build starts again from the clone
C12_FailedInstallLeavesNothing ==
    \A i \in 1..Len(results) :
        InstallFailedAfterCreate(i) =>
            /\ ~results[i].repo_dir_present
            /\ ~results[i].env_present
            /\ results[i].rollbacks = Before(i).rollbacks + 1
            /\ i < Len(results) => results[i + 1].clones = results[i].clones + 1

C12_Witness ==
    /\ Len(results) >= 2
    /\ InstallFailedAfterCreate(1)
    /\ ~results[1].env_present
    /\ results[2].clones = 2

\* C13: when a provisioning step fails inside build, build ends, after the rollback,
\* with the provisioning error raised to the caller, and does not return normally
C13_ProvisioningErrorRaised ==
    \A i \in 1..Len(results) :
        results[i].failed # "" =>
            /\ results[i].rollbacks = Before(i).rollbacks + 1
            /\ results[i].ended = "raised"

\* the last path component of a path
Basename(path) == Last(Split(path, "/"))

\* Work Units i and j have the same acquisition id and task kind and read the same
\* clock second in _init_local, and both have left _init_local
SameSecondTwins(i, j) ==
    /\ i # j
    /\ unit_acq[i] = unit_acq[j]
    /\ unit_stamp[i] >= 0
    /\ unit_stamp[i] = unit_stamp[j]
    /\ unit_pc[i] \in {"done", "FileExistsError"}
    /\ unit_pc[j] \in {"done", "FileExistsError"}

\* C14: two Work Units with the same acquisition id and task kind whose _init_local runs
\* in the same clock second each get a scratch directory of their own: both finish
\* _init_local, their tmp_dir paths differ, and neither has written its config copy or
\* its pickle into the directory of the other
C14_SameSecondUnitsGetOwnDirs ==
    \A i, j \in Units :
        SameSecondTwins(i, j) =>
            /\ unit_pc[i] = "done"
            /\ unit_pc[j] = "done"
            /\ unit_tmp_dir[i] # unit_tmp_dir[j]
            /\ \A f \in scratch_files : f.dir = unit_tmp_dir[i] => f.by = i

\* the characters that _init_local takes out of the scratch-directory name
Unsafe == {" ", "(", ")", ",", "/"}

\* C15: for every acquisition id and task kind, the scratch-directory name (the last path
\* component of tmp_dir, which sits directly under base_tmp_dir) holds no space, no
\* parenthesis, no comma and no slash, and is no longer than the filesystem's maximum
\* filename length
C15_ScratchNameSafeAndShort ==
    \A i \in Units :
        unit_tmp_dir[i] # <<>> =>
            LET name == Basename(unit_tmp_dir[i])
            IN  /\ unit_tmp_dir[i] = base_tmp_dir \o name
                /\ \A k \in 1..Len(name) : name[k] \notin Unsafe
                /\ Len(name) <= f_namemax

\* one unit with an id of parentheses, one with an id so long that the path was cut
C15_Witness ==
    /\ unit_acq[1] = <<"e", "(", "1", ")">>
    /\ unit_acq[2] = LongId
    /\ unit_tmp_dir[1] # <<>>
    /\ Len(unit_tmp_dir[2]) = f_namemax
    /\ Len(base_tmp_dir \o folder_name(LongId, task_family, clock)) > f_namemax

\* the acquisitions of the orbit
Orbit == DOMAIN metadata

\* a text of three decimal digits
ThreeDigits(t) == Len(t) = 3 /\ \A k \in 1..3 : IsDigit(t[k])

PartlyNumbered ==
    /\ \E a \in Orbit : metadata_before[a] # Absent
    /\ \E a \in Orbit : metadata_before[a] = Absent

\* C17: without override_output, work on an orbit where some but not all acquisitions
\* carry a scene number fails, and at the failure no metadata has been updated and no
\* log entry has been appended
C17_PartialNumberingFailsUntouched ==
    (~override_output /\ PartlyNumbered) =>
        /\ wpc \in {"find", "check", "RuntimeError"}
        /\ metadata = metadata_before
        /\ \A a \in Orbit : acquisition_log[a] = <<>>
        /\ orbit_log = <<>>

C17_Witness ==
    /\ ~override_output
    /\ PartlyNumbered
    /\ wpc = "RuntimeError"
    /\ Cardinality(Orbit) = 3

\* C18: once a poll of _track_job finds no row for the job, the tracker stops polling in
\* that step with exactly one of the two terminal classifications, and a poll without a
\* row is the only way the loop is left with a classification: no count of polls and no
\* clock reading ends it
C18_DisappearanceEndsTracking ==
    [][ /\ PollNoRow
            => /\ pc' = "returned"
               /\ classification' \in {"COMPLETED_OK", "COMPLETED_WITH_ERRORS"}
        /\ (pc = "track_poll" /\ pc' = "returned") => PollNoRow
        /\ pc = "track_sleep" => pc' \in {"track_sleep", "track_poll"} ]_vars

\* C19: whenever work raises in the Remote Runner, the failure that leaves
\* _do_work_on_compute_node is the one that work raised, also when the copy to the error
\* area fails because its target exists already
C19_OriginalFailurePropagates ==
    (rpc \in {"main_exit", "exited"} /\ work_raised # "") => pending = work_raised

\* C20: when job.err cannot be read at the poll where the job has disappeared, the
\* tracker takes that poll as not yet terminal and goes round the loop once more; only
\* when the read fails again does it fall back to the empty error stream.  It neither
\* classifies at the first failed read nor fails.
C20_UnreadableErrorStreamRetriedOnce ==
    [][ /\ (PollNoRow /\ ~errfile.exists /\ err_reads = 0)
            => (pc' = "track_sleep" /\ classification' = "NONE" /\ exc' = "")
        /\ (PollNoRow /\ ~errfile.exists /\ err_reads = 1)
            => (pc' = "returned" /\ classification' = "COMPLETED_OK" /\ exc' = "") ]_vars

\* the lines of an answer that are rows: neither the header nor blank
IsRow(line) == ~Contains(JOBID, line) /\ Strip(line) # <<>>

\* the state column of the first row of the lines whose job id column is id, "u" when
\* there is no such row
RECURSIVE StateOfJob(_, _)
StateOfJob(lines, id) ==
    IF lines = <<>> THEN u
    ELSE IF IsRow(Head(lines)) /\ Fields(Head(lines))[1] = StrOf(id)
    THEN Fields(Head(lines))[5]
    ELSE StateOfJob(Tail(lines), id)

\* C21: _parse_squeue_state(squeue_out, job_id) returns the state of the first row whose
\* job id equals job_id, and "u" when the output is empty or no row has that job id; a
\* row of another job never determines the result
C21_StateOfFirstMatchingRow ==
    parse_pc = "done" =>
        parse_state = IF Contains(invalid_job_str, parse_squeue_out) THEN u
                      ELSE StateOfJob(Split(parse_squeue_out, "\n"), parse_job_id)

\* C22: when the tracker classifies COMPLETED_WITH_ERRORS, as when it classifies
\* COMPLETED_OK, _track_job, _run_job and run() return without raising: a failure of
\* work on the compute node reaches the caller of run() through the log only
C22_ClassifiedRunReturnsNormally ==
    classification # "NONE" => (pc = "returned" /\ exc = "")

C22_Witness ==
    /\ classification = "COMPLETED_WITH_ERRORS"
    /\ pc = "returned"
    /\ exc = ""
    /\ work_raised = "RuntimeError"
    /\ exit_status = "nonzero"

\* the environment was there when call i of build began
EnvBefore(i) == IF i = 1 THEN env_preexisting ELSE results[i - 1].env_present

\* C23: the rollback of build removes the environment whenever it exists at rollback
\* time: when the environment was there before the call, so that the call did not
\* create it, and the clone or the install step fails, the environment is gone at the
\* end of the call
C23_RollbackRemovesPreexistingEnv ==
    \A i \in 1..Len(results) :
        (EnvBefore(i) /\ results[i].failed \in {"clone", "install"}) =>
            /\ results[i].creates = Before(i).creates
            /\ results[i].rollbacks = Before(i).rollbacks + 1
            /\ ~results[i].env_present

C23_Witness ==
    /\ env_preexisting
    /\ Len(results) >= 1
    /\ results[1].failed = "install"
    /\ results[1].creates = 0
    /\ ~results[1].env_present
    /\ ~env_present

\* what _init_local puts into the scratch directory
InitLocalFiles == {"config", "job-instance.pickle"}

\* C24: run(), _run_job and _track_job never delete or move the scratch directory that
\* _init_local created, nor the configuration copy and the pickled Work Unit in it: the
\* directory is still there after a terminal classification of either kind and after a
\* failed submission
C24_CoordinatorKeepsScratchDir ==
    /\ InTrace("makedirs", trace) => tmp_dir \in dirs
    /\ InTrace("copy_config", trace) => "config" \in tmp_files
    /\ InTrace("dump", trace) => "job-instance.pickle" \in tmp_files
    /\ (classification # "NONE" \/ SubmissionFailed)
           => (tmp_dir \in dirs /\ InitLocalFiles \subseteq tmp_files)

C24_Witness ==
    /\ SubmissionFailed
    /\ sbatch_rc # 0
    /\ pc = "raised"
    /\ job_id = <<>>
    /\ tmp_dir \in dirs
    /\ InitLocalFiles \subseteq tmp_files

=============================================================================
